---- MODULE Spec2Model ----
(***************************************************************************)
(* A model of news_screener.py: NewsClassifier.process_document and the    *)
(* functions it calls (segmentation of the paragraph sequence, the oracle  *)
(* adapter with its fallbacks, deduplication by topic_key, ordering and    *)
(* grouped rendering).                                                     *)
(*                                                                         *)
(* Text is modelled as a sequence of one-character strings, so that        *)
(* counting separators, lower-casing and substring tests are computed as   *)
(* the Python code computes them.  A non-ASCII character is one element    *)
(* named by its code point ("U+6771").                                     *)
(***************************************************************************)
EXTENDS Integers, Sequences, FiniteSets, TLC

VARIABLES
    paragraphs,       \* the non-empty trimmed text blocks of the input document
    i,                \* scan position of extract_articles_from_docx (0-based)
    current_article,  \* the open article of the scan, or None
    articles,         \* the articles emitted by the scan
    pc,               \* position of process_document; "normalize" in a direct call
                      \* of normalize_location, "page" in article_manager.py
    results,          \* the per-article records of process_document
    oracle_log,       \* the oracle's outcome of every call made so far
    artifact,         \* what save_results has written: one entry per json.dump
    selected,         \* the list returned by deduplicate_results
    document,         \* the grouped part of the saved output document, or None
    raised,           \* the exception that ended the run, or "none"
    spans,            \* history of the scan: for every article opened, the position
                      \* of its metadata line and the positions appended as content
    location_in,      \* argument of a direct call of normalize_location
    location_out,     \* what that call and the repeated call returned, in order
    session_state     \* st.session_state of article_manager.py, or None

vars == <<paragraphs, i, current_article, articles, pc, results, oracle_log,
          artifact, selected, document, raised, spans, location_in, location_out,
          session_state>>

\* what process_document never touches
elsewhere == <<location_in, location_out, session_state>>

\* Longest input document, in text blocks.
MaxBlocks == 4

None == [none |-> TRUE]

----------------------------------------------------------------------------
(* Text helpers *)

\* The characters of an ASCII string literal.
RECURSIVE Chars(_)
Chars(s) == IF s = "" THEN <<>> ELSE <<Head(s)>> \o Chars(Tail(s))

RECURSIVE CountChar(_, _)
\* str.count for a one-character needle
CountChar(text, c) ==
    IF text = <<>> THEN 0
    ELSE (IF Head(text) = c THEN 1 ELSE 0) + CountChar(Tail(text), c)

\* ' '.join(list)
RECURSIVE JoinSpace(_)
JoinSpace(list) ==
    IF list = <<>> THEN <<>>
    ELSE IF Len(list) = 1 THEN list[1]
    ELSE list[1] \o <<" ">> \o JoinSpace(Tail(list))

\* text.split('|')[0]: the part before the first separator
RECURSIVE BeforeBar(_)
BeforeBar(text) ==
    IF text = <<>> \/ Head(text) = "|" THEN <<>>
    ELSE <<Head(text)>> \o BeforeBar(Tail(text))

\* str.split() on whitespace: the non-empty words of text, in order.
\* cur is the word being read.
RECURSIVE SplitWords(_, _)
SplitWords(text, cur) ==
    IF text = <<>> THEN (IF cur = <<>> THEN <<>> ELSE <<cur>>)
    ELSE IF Head(text) = " "
         THEN (IF cur = <<>> THEN <<>> ELSE <<cur>>) \o SplitWords(Tail(text), <<>>)
         ELSE SplitWords(Tail(text), Append(cur, Head(text)))

----------------------------------------------------------------------------
(* Segmentation: is_new_metadata_format, _extract_section_from_metadata,   *)
(* extract_articles_from_docx                                              *)

is_new_metadata_format(text) ==
    IF text = <<>> THEN FALSE ELSE CountChar(text, "|") >= 2

extract_section_from_metadata(metadata) ==
    LET parts == SplitWords(BeforeBar(metadata), <<>>)
    IN  IF Len(parts) >= 3 THEN parts[Len(parts)] ELSE Chars("Unknown")

\* The text blocks a document is drawn from: a title-like line, a prose line
\* with a single separator, and a metadata line.
BlockTexts == { Chars("A"), Chars("B|c"), Chars("hk 19 a1|x|y") }

RECURSIVE SeqsUpTo(_, _)
SeqsUpTo(S, n) ==
    IF n = 0 THEN { <<>> }
    ELSE LET shorter == SeqsUpTo(S, n - 1)
         IN  shorter \cup { Append(s, x) : s \in { t \in shorter : Len(t) = n - 1 }, x \in S }

\* paragraphs[j] of the code (0-based)
Block(j) == paragraphs[j + 1]

n == Len(paragraphs)

\* a scan that restarts collecting at the block before the metadata line
ScanMetadata_FromTitle ==
    /\ pc = "scan"
    /\ i < n
    /\ is_new_metadata_format(Block(i))
    /\ LET title_line == IF i >= 1 THEN Block(i - 1) ELSE <<>>
       IN  /\ articles' = IF current_article # None
                          THEN Append(articles, current_article)
                          ELSE articles
           /\ current_article' =
                 [ title |-> title_line,
                   metadata |-> Block(i),
                   content_paragraphs |-> IF i >= 1 THEN <<Block(i - 1)>> ELSE <<>>,
                   section |-> extract_section_from_metadata(Block(i)) ]
    /\ spans' = Append(spans, [metadata_at |-> i,
                               content_at |-> IF i >= 1 THEN <<i - 1>> ELSE <<>>])
    /\ i' = i + 1
    /\ pc' = "content"
    /\ UNCHANGED <<elsewhere, paragraphs, results, oracle_log, artifact, selected, document, raised>>

\* lines 43-56: a metadata line closes the open article and opens a new one
ScanMetadata ==
    /\ pc = "scan"
    /\ i < n
    /\ is_new_metadata_format(Block(i))
    /\ LET title_line == IF i >= 1 THEN Block(i - 1) ELSE <<>>
       IN  /\ articles' = IF current_article # None
                          THEN Append(articles, current_article)
                          ELSE articles
           /\ current_article' =
                 [ title |-> title_line,
                   metadata |-> Block(i),
                   content_paragraphs |-> <<>>,
                   section |-> extract_section_from_metadata(Block(i)) ]
    /\ spans' = Append(spans, [metadata_at |-> i, content_at |-> <<>>])
    /\ i' = i + 1
    /\ pc' = "content"
    /\ UNCHANGED <<elsewhere, paragraphs, results, oracle_log, artifact, selected, document, raised>>

\* an else branch that leaves the scan position where it is
ScanSkip_Stay ==
    /\ pc = "scan"
    /\ i < n
    /\ ~ is_new_metadata_format(Block(i))
    /\ UNCHANGED <<elsewhere, spans, paragraphs, i, current_article, articles, pc, results,
                   oracle_log, artifact, selected, document, raised>>

\* lines 66-67: any other block is skipped
ScanSkip ==
    /\ pc = "scan"
    /\ i < n
    /\ ~ is_new_metadata_format(Block(i))
    /\ i' = i + 1
    /\ UNCHANGED <<elsewhere, spans, paragraphs, current_article, articles, pc, results, oracle_log,
                   artifact, selected, document, raised>>

\* a lookahead that tests the block under the scan position
LookaheadStops_AtCurrent == i < n /\ is_new_metadata_format(Block(i))

\* the lookahead of line 60
LookaheadStops == i + 1 < n /\ is_new_metadata_format(Block(i + 1))

\* lines 58-63: one block is consumed as content
ContentAppend ==
    /\ pc = "content"
    /\ i < n
    /\ ~ LookaheadStops
    /\ current_article' =
          [ current_article EXCEPT !.content_paragraphs = Append(@, Block(i)) ]
    /\ spans' = [ spans EXCEPT ![Len(spans)].content_at = Append(@, i) ]
    /\ i' = i + 1
    /\ UNCHANGED <<elsewhere, paragraphs, articles, pc, results, oracle_log, artifact, selected,
                   document, raised>>

\* lines 58-61 and 65: the inner loop ends and the joined content is stored
ContentStop ==
    /\ pc = "content"
    /\ (i >= n \/ LookaheadStops)
    /\ current_article' =
          [ title |-> current_article.title,
            metadata |-> current_article.metadata,
            content_paragraphs |-> current_article.content_paragraphs,
            section |-> current_article.section,
            content |-> JoinSpace(current_article.content_paragraphs) ]
    /\ pc' = "scan"
    /\ UNCHANGED <<elsewhere, spans, paragraphs, i, articles, results, oracle_log, artifact, selected,
                   document, raised>>

\* lines 69-72 and process_document lines 268-281: the last article is
\* appended, the list is returned and the classification loop starts
ScanFlush ==
    /\ pc = "scan"
    /\ i >= n
    /\ articles' = IF current_article # None
                   THEN Append(articles, current_article)
                   ELSE articles
    /\ pc' = "classify"
    /\ UNCHANGED <<elsewhere, spans, paragraphs, i, current_article, results, oracle_log, artifact,
                   selected, document, raised>>

----------------------------------------------------------------------------
(* Location normalisation: normalize_location *)

UpperLetters == "ABCDEFGHIJKLMNOPQRSTUVWXYZ"
LowerLetters == "abcdefghijklmnopqrstuvwxyz"

\* str.lower() of one character; a character without case is unchanged
LowerChar(c) ==
    LET hit == { k \in 1..Len(UpperLetters) : SubSeq(UpperLetters, k, k) = c }
    IN  IF hit = {} THEN c
        ELSE LET k == CHOOSE k \in hit : TRUE IN SubSeq(LowerLetters, k, k)

RECURSIVE Lower(_)
\* str.lower()
Lower(text) ==
    IF text = <<>> THEN <<>> ELSE <<LowerChar(Head(text))>> \o Lower(Tail(text))

\* needle in hay
Contains(hay, needle) ==
    \E o \in 0..(Len(hay) - Len(needle)) : SubSeq(hay, o + 1, o + Len(needle)) = needle

SetMin(S) == CHOOSE x \in S : \A y \in S : x <= y

\* location_map, in the dict's iteration order: <<alias, canonical label>>
location_map ==
    <<
       <<<<"U+7F8E", "U+56FD">>, <<"U", "n", "i", "t", "e", "d", " ", "S", "t", "a", "t", "e", "s">>>>,
       <<<<"U+7F8E", "U+570B">>, <<"U", "n", "i", "t", "e", "d", " ", "S", "t", "a", "t", "e", "s">>>>,
       <<<<"A", "m", "e", "r", "i", "c", "a">>, <<"U", "n", "i", "t", "e", "d", " ", "S", "t", "a", "t", "e", "s">>>>,
       <<<<"A", "l", "a", "s", "k", "a">>, <<"U", "n", "i", "t", "e", "d", " ", "S", "t", "a", "t", "e", "s">>>>,
       <<<<"U+963F", "U+62C9", "U+65AF", "U+52A0">>, <<"U", "n", "i", "t", "e", "d", " ", "S", "t", "a", "t", "e", "s">>>>,
       <<<<"U+534E", "U+76DB", "U+987F">>, <<"U", "n", "i", "t", "e", "d", " ", "S", "t", "a", "t", "e", "s">>>>,
       <<<<"U+83EF", "U+76DB", "U+9813">>, <<"U", "n", "i", "t", "e", "d", " ", "S", "t", "a", "t", "e", "s">>>>,
       <<<<"W", "a", "s", "h", "i", "n", "g", "t", "o", "n">>, <<"U", "n", "i", "t", "e", "d", " ", "S", "t", "a", "t", "e", "s">>>>,
       <<<<"U+4FC4", "U+7F57", "U+65AF">>, <<"R", "u", "s", "s", "i", "a">>>>,
       <<<<"U+4FC4", "U+7F85", "U+65AF">>, <<"R", "u", "s", "s", "i", "a">>>>,
       <<<<"U+83AB", "U+65AF", "U+79D1">>, <<"R", "u", "s", "s", "i", "a">>>>,
       <<<<"M", "o", "s", "c", "o", "w">>, <<"R", "u", "s", "s", "i", "a">>>>,
       <<<<"U+6B27", "U+6D32">>, <<"E", "u", "r", "o", "p", "e">>>>,
       <<<<"U+6B50", "U+6D32">>, <<"E", "u", "r", "o", "p", "e">>>>,
       <<<<"U+6B27", "U+76DF">>, <<"E", "u", "r", "o", "p", "e">>>>,
       <<<<"U+6B50", "U+76DF">>, <<"E", "u", "r", "o", "p", "e">>>>,
       <<<<"U+4E4C", "U+514B", "U+5170">>, <<"E", "u", "r", "o", "p", "e">>>>,
       <<<<"U+70CF", "U+514B", "U+862D">>, <<"E", "u", "r", "o", "p", "e">>>>,
       <<<<"U", "k", "r", "a", "i", "n", "e">>, <<"E", "u", "r", "o", "p", "e">>>>,
       <<<<"U+57FA", "U+8F85">>, <<"E", "u", "r", "o", "p", "e">>>>,
       <<<<"U+57FA", "U+8F14">>, <<"E", "u", "r", "o", "p", "e">>>>,
       <<<<"K", "i", "e", "v">>, <<"E", "u", "r", "o", "p", "e">>>>,
       <<<<"K", "y", "i", "v">>, <<"E", "u", "r", "o", "p", "e">>>>,
       <<<<"U+5FB7", "U+56FD">>, <<"E", "u", "r", "o", "p", "e">>>>,
       <<<<"U+5FB7", "U+570B">>, <<"E", "u", "r", "o", "p", "e">>>>,
       <<<<"G", "e", "r", "m", "a", "n", "y">>, <<"E", "u", "r", "o", "p", "e">>>>,
       <<<<"U+6CD5", "U+56FD">>, <<"E", "u", "r", "o", "p", "e">>>>,
       <<<<"U+6CD5", "U+570B">>, <<"E", "u", "r", "o", "p", "e">>>>,
       <<<<"F", "r", "a", "n", "c", "e">>, <<"E", "u", "r", "o", "p", "e">>>>,
       <<<<"U+82F1", "U+56FD">>, <<"E", "u", "r", "o", "p", "e">>>>,
       <<<<"U+82F1", "U+570B">>, <<"E", "u", "r", "o", "p", "e">>>>,
       <<<<"U", "K">>, <<"E", "u", "r", "o", "p", "e">>>>,
       <<<<"B", "r", "i", "t", "a", "i", "n">>, <<"E", "u", "r", "o", "p", "e">>>>,
       <<<<"U+610F", "U+5927", "U+5229">>, <<"E", "u", "r", "o", "p", "e">>>>,
       <<<<"I", "t", "a", "l", "y">>, <<"E", "u", "r", "o", "p", "e">>>>,
       <<<<"U+897F", "U+73ED", "U+7259">>, <<"E", "u", "r", "o", "p", "e">>>>,
       <<<<"S", "p", "a", "i", "n">>, <<"E", "u", "r", "o", "p", "e">>>>,
       <<<<"U+8461", "U+8404", "U+7259">>, <<"E", "u", "r", "o", "p", "e">>>>,
       <<<<"P", "o", "r", "t", "u", "g", "a", "l">>, <<"E", "u", "r", "o", "p", "e">>>>,
       <<<<"U+5E0C", "U+814A">>, <<"E", "u", "r", "o", "p", "e">>>>,
       <<<<"U+5E0C", "U+81D8">>, <<"E", "u", "r", "o", "p", "e">>>>,
       <<<<"G", "r", "e", "e", "c", "e">>, <<"E", "u", "r", "o", "p", "e">>>>,
       <<<<"U+571F", "U+8033", "U+5176">>, <<"E", "u", "r", "o", "p", "e">>>>,
       <<<<"T", "u", "r", "k", "e", "y">>, <<"E", "u", "r", "o", "p", "e">>>>,
       <<<<"U+585E", "U+5C14", "U+7EF4", "U+4E9A">>, <<"E", "u", "r", "o", "p", "e">>>>,
       <<<<"U+585E", "U+723E", "U+7DAD", "U+4E9E">>, <<"E", "u", "r", "o", "p", "e">>>>,
       <<<<"S", "e", "r", "b", "i", "a">>, <<"E", "u", "r", "o", "p", "e">>>>,
       <<<<"U+5E03", "U+9C81", "U+585E", "U+5C14">>, <<"E", "u", "r", "o", "p", "e">>>>,
       <<<<"U+5E03", "U+9B6F", "U+585E", "U+723E">>, <<"E", "u", "r", "o", "p", "e">>>>,
       <<<<"B", "r", "u", "s", "s", "e", "l", "s">>, <<"E", "u", "r", "o", "p", "e">>>>,
       <<<<"U+4EE5", "U+8272", "U+5217">>, <<"M", "i", "d", "d", "l", "e", " ", "E", "a", "s", "t">>>>,
       <<<<"I", "s", "r", "a", "e", "l">>, <<"M", "i", "d", "d", "l", "e", " ", "E", "a", "s", "t">>>>,
       <<<<"U+5DF4", "U+52D2", "U+65AF", "U+5766">>, <<"M", "i", "d", "d", "l", "e", " ", "E", "a", "s", "t">>>>,
       <<<<"P", "a", "l", "e", "s", "t", "i", "n", "e">>, <<"M", "i", "d", "d", "l", "e", " ", "E", "a", "s", "t">>>>,
       <<<<"U+52A0", "U+6C99">>, <<"M", "i", "d", "d", "l", "e", " ", "E", "a", "s", "t">>>>,
       <<<<"G", "a", "z", "a">>, <<"M", "i", "d", "d", "l", "e", " ", "E", "a", "s", "t">>>>,
       <<<<"U+57C3", "U+53CA">>, <<"M", "i", "d", "d", "l", "e", " ", "E", "a", "s", "t">>>>,
       <<<<"E", "g", "y", "p", "t">>, <<"M", "i", "d", "d", "l", "e", " ", "E", "a", "s", "t">>>>,
       <<<<"U+65B0", "U+52A0", "U+5761">>, <<"S", "o", "u", "t", "h", "e", "a", "s", "t", " ", "A", "s", "i", "a">>>>,
       <<<<"S", "i", "n", "g", "a", "p", "o", "r", "e">>, <<"S", "o", "u", "t", "h", "e", "a", "s", "t", " ", "A", "s", "i", "a">>>>,
       <<<<"U+83F2", "U+5F8B", "U+5BBE">>, <<"S", "o", "u", "t", "h", "e", "a", "s", "t", " ", "A", "s", "i", "a">>>>,
       <<<<"U+83F2", "U+5F8B", "U+8CD3">>, <<"S", "o", "u", "t", "h", "e", "a", "s", "t", " ", "A", "s", "i", "a">>>>,
       <<<<"P", "h", "i", "l", "i", "p", "p", "i", "n", "e", "s">>, <<"S", "o", "u", "t", "h", "e", "a", "s", "t", " ", "A", "s", "i", "a">>>>,
       <<<<"U+9A6C", "U+5C3C", "U+62C9">>, <<"S", "o", "u", "t", "h", "e", "a", "s", "t", " ", "A", "s", "i", "a">>>>,
       <<<<"U+99AC", "U+5C3C", "U+62C9">>, <<"S", "o", "u", "t", "h", "e", "a", "s", "t", " ", "A", "s", "i", "a">>>>,
       <<<<"M", "a", "n", "i", "l", "a">>, <<"S", "o", "u", "t", "h", "e", "a", "s", "t", " ", "A", "s", "i", "a">>>>,
       <<<<"U+65E5", "U+672C">>, <<"J", "a", "p", "a", "n">>>>,
       <<<<"U+5927", "U+962A">>, <<"J", "a", "p", "a", "n">>>>,
       <<<<"O", "s", "a", "k", "a">>, <<"J", "a", "p", "a", "n">>>>,
       <<<<"U+9053", "U+9813", "U+5800">>, <<"J", "a", "p", "a", "n">>>>,
       <<<<"U+4E1C", "U+4EAC">>, <<"J", "a", "p", "a", "n">>>>,
       <<<<"U+6771", "U+4EAC">>, <<"J", "a", "p", "a", "n">>>>,
       <<<<"T", "o", "k", "y", "o">>, <<"J", "a", "p", "a", "n">>>>,
       <<<<"U+97E9", "U+56FD">>, <<"K", "o", "r", "e", "a">>>>,
       <<<<"U+97D3", "U+570B">>, <<"K", "o", "r", "e", "a">>>>,
       <<<<"S", "o", "u", "t", "h", " ", "K", "o", "r", "e", "a">>, <<"K", "o", "r", "e", "a">>>>,
       <<<<"U+671D", "U+9C9C">>, <<"K", "o", "r", "e", "a">>>>,
       <<<<"U+671D", "U+9BAE">>, <<"K", "o", "r", "e", "a">>>>,
       <<<<"N", "o", "r", "t", "h", " ", "K", "o", "r", "e", "a">>, <<"K", "o", "r", "e", "a">>>>,
       <<<<"U+4E2D", "U+56FD">>, <<"C", "h", "i", "n", "a">>>>,
       <<<<"U+4E2D", "U+570B">>, <<"C", "h", "i", "n", "a">>>>,
       <<<<"C", "h", "i", "n", "a">>, <<"C", "h", "i", "n", "a">>>>
    >>

\* the lower-cased aliases, as both loops compute them
RECURSIVE LowerKeys(_)
LowerKeys(map) ==
    IF map = <<>> THEN <<>> ELSE <<Lower(Head(map)[1])>> \o LowerKeys(Tail(map))

location_keys_lower == LowerKeys(location_map)

\* a normalizer that coerces an unmatched string to the default region
normalize_location_Coerced(location) ==
    LET loc == Lower(location)
        exact == { k \in 1..Len(location_map) : location_keys_lower[k] = loc }
        partial == { k \in 1..Len(location_map) :
                        \/ Contains(loc, location_keys_lower[k])
                        \/ Contains(location_keys_lower[k], loc) }
    IN  IF exact # {} THEN location_map[SetMin(exact)][2]
        ELSE IF partial # {} THEN location_map[SetMin(partial)][2]
        ELSE Chars("Others")

\* a normalizer that compares without lower-casing
normalize_location_CaseSensitive(location) ==
    LET exact == { k \in 1..Len(location_map) : location_map[k][1] = location }
        partial == { k \in 1..Len(location_map) :
                        \/ Contains(location, location_map[k][1])
                        \/ Contains(location_map[k][1], location) }
    IN  IF exact # {} THEN location_map[SetMin(exact)][2]
        ELSE IF partial # {} THEN location_map[SetMin(partial)][2]
        ELSE location

normalize_location(location) ==
    LET loc == Lower(location)
        exact == { k \in 1..Len(location_map) : location_keys_lower[k] = loc }
        partial == { k \in 1..Len(location_map) :
                        \/ Contains(loc, location_keys_lower[k])
                        \/ Contains(location_keys_lower[k], loc) }
    IN  IF exact # {} THEN location_map[SetMin(exact)][2]
        ELSE IF partial # {} THEN location_map[SetMin(partial)][2]
        ELSE location

\* The location strings that occur in a run of the model, each with its
\* normalisation computed once; Normalized looks a location up here and
\* computes normalize_location for any other string.
KnownLocations ==
    << <<"U+6771", "U+4EAC">>, Chars("Tokyo"), Chars("Osaka"), Chars("Mars"),
       Chars("China"), Chars("Japan"), Chars("Others") >>

RECURSIVE NormalizeEach(_)
NormalizeEach(locations) ==
    IF locations = <<>> THEN <<>>
    ELSE <<normalize_location(Head(locations))>> \o NormalizeEach(Tail(locations))

KnownNormalized == NormalizeEach(KnownLocations)

Normalized(location) ==
    LET hit == { k \in 1..Len(KnownLocations) : KnownLocations[k] = location }
    IN  IF hit = {} THEN normalize_location(location)
        ELSE KnownNormalized[SetMin(hit)]

----------------------------------------------------------------------------
(* The oracle adapter: analyze_article_with_kimi *)

\* The oracle's raw response text is a sequence of tokens: an opening brace,
\* a closing brace, other text, or the members of one JSON object (the text
\* between an object's braces, standing for the dict it decodes to).
LBrace == [ch |-> "{"]
RBrace == [ch |-> "}"]
Prose == [ch |-> "t"]
Members(obj) == [ch |-> "members", obj |-> obj]

\* re.search(r'\{.*\}', response_text, re.DOTALL): the span from the first
\* opening brace to the last closing brace after it, or None
json_match(response_text) ==
    LET opens == { k \in 1..Len(response_text) : response_text[k].ch = "{" }
        closes == { k \in 1..Len(response_text) : response_text[k].ch = "}" }
    IN  IF opens = {} THEN None
        ELSE LET a == SetMin(opens)
                 after == { k \in closes : k > a }
             IN  IF after = {} THEN None
                 ELSE SubSeq(response_text, a, CHOOSE b \in after : \A c \in after : c <= b)

\* whether json.loads(json_str) returns (it raises JSONDecodeError otherwise)
json_decodes(json_str) ==
    \/ json_str = <<LBrace, RBrace>>
    \/ /\ Len(json_str) = 3
       /\ json_str[1] = LBrace
       /\ json_str[2].ch = "members"
       /\ json_str[3] = RBrace

EmptyDict == [f \in {} |-> 0]

\* json.loads(json_str), where it returns
json_loads(json_str) ==
    IF Len(json_str) = 3 THEN json_str[2].obj ELSE EmptyDict

ZeroScores ==
    [ who_score |-> 0, what_score |-> 0, when_score |-> 0,
      where_score |-> 0, why_score |-> 0, how_score |-> 0 ]

\* a fallback that leaves fields out
ParseFallback_Incomplete ==
    [ is_hard_news |-> FALSE,
      overall_score |-> 0,
      recommendation |-> "API response parsing failed" ]

\* lines 227-241
ParseFallback ==
    [ is_hard_news |-> FALSE,
      overall_score |-> 0,
      analysis |-> ZeroScores,
      missing_elements |-> <<"all">>,
      recommendation |-> "API response parsing failed",
      first_three_paragraphs_analysis |-> "Unable to analyze",
      topic_summary |-> "Unable to summarize",
      main_location |-> Chars("Others"),
      is_tech_news |-> FALSE,
      topic_key |-> "unknown" ]

\* lines 246-260; e is str(e) of the exception caught
ErrorFallback(e) ==
    [ is_hard_news |-> FALSE,
      overall_score |-> 0,
      analysis |-> ZeroScores,
      missing_elements |-> <<"all">>,
      recommendation |-> "Error: " \o e,
      first_three_paragraphs_analysis |-> "Error occurred",
      topic_summary |-> "Error occurred",
      main_location |-> Chars("Others"),
      is_tech_news |-> FALSE,
      topic_key |-> "error" ]

\* lines 222-224
NormalizeMainLocation(analysis) ==
    IF "main_location" \in DOMAIN analysis
    THEN [ f \in DOMAIN analysis |->
             IF f = "main_location" THEN Normalized(analysis[f]) ELSE analysis[f] ]
    ELSE analysis

\* article['content'][:3000]
ContentPrefixLen == 3000

Prefix(text, len) == SubSeq(text, 1, IF Len(text) < len THEN Len(text) ELSE len)

\* lines 147-214: what the oracle is sent
Request(article) ==
    [ title |-> article.title, content |-> Prefix(article.content, ContentPrefixLen) ]

\* the adapter without the fallback of lines 225-241
analyze_article_with_kimi_NoFallback(article, outcome) ==
    IF outcome.kind = "raise" THEN ErrorFallback(outcome.detail)
    ELSE LET m == json_match(outcome.text)
         IN  IF m = None THEN EmptyDict
             ELSE IF json_decodes(m) THEN NormalizeMainLocation(json_loads(m))
             ELSE ErrorFallback("Expecting value")

\* lines 199-260: the Classification returned for one outcome of the oracle
\* call; outcome.kind is "raise" (the call raised) or "text" (it returned)
analyze_article_with_kimi(article, outcome) ==
    IF outcome.kind = "raise" THEN ErrorFallback(outcome.detail)
    ELSE LET m == json_match(outcome.text)
         IN  IF m = None THEN ParseFallback
             ELSE IF json_decodes(m) THEN NormalizeMainLocation(json_loads(m))
             ELSE ErrorFallback("Expecting value")

----------------------------------------------------------------------------
(* Sorting as list.sort and sorted do it: stable, by a key *)

\* tuple comparison of two (int, int) keys
PairLess(a, b) == a[1] < b[1] \/ (a[1] = b[1] /\ a[2] < b[2])

\* list sorted by keys[k], the key of list[k]; equal keys keep their order
StableSort(list, keys) ==
    LET N == Len(list)
        Rank(j) == 1 + Cardinality({ m \in 1..N :
                          \/ PairLess(keys[m], keys[j])
                          \/ (keys[m] = keys[j] /\ m < j) })
    IN  [r \in 1..N |-> list[CHOOSE j \in 1..N : Rank(j) = r]]

----------------------------------------------------------------------------
(* Deduplication: deduplicate_results *)

\* line 323: the grouping key of one record
GroupKey(res) ==
    IF "topic_key" \in DOMAIN res.analysis THEN res.analysis.topic_key
    ELSE "unknown_" \o ToString(res.article_index)

\* the keys of groups, in insertion order (first occurrence in the list)
RECURSIVE GroupKeys(_, _)
GroupKeys(list, seen) ==
    IF list = <<>> THEN <<>>
    ELSE LET key == GroupKey(Head(list))
         IN  IF key \in seen THEN GroupKeys(Tail(list), seen)
             ELSE <<key>> \o GroupKeys(Tail(list), seen \cup {key})

\* groups[key]: the records of one key, in list order
Group(list, key) == SelectSeq(list, LAMBDA res : GroupKey(res) = key)

\* whether line 330 raises KeyError: a record without overall_score
DedupRaises(list) ==
    \E k \in 1..Len(list) : "overall_score" \notin DOMAIN list[k].analysis

\* the key without its second component
DedupSortKey_NoTieBreak(res) == <<0 - res.analysis.overall_score, 0>>

\* line 330: the sort key of a record within its group
DedupSortKey(res) == <<0 - res.analysis.overall_score, res.article_index>>

RECURSIVE DedupSortKeys(_)
DedupSortKeys(group) ==
    IF group = <<>> THEN <<>>
    ELSE <<DedupSortKey(Head(group))>> \o DedupSortKeys(Tail(group))

\* lines 330-331: the representative of one group
Best(group) == StableSort(group, DedupSortKeys(group))[1]

\* lines 326-340: the representatives of the groups of these keys
RECURSIVE BestOfEach(_, _)
BestOfEach(list, keys) ==
    IF keys = <<>> THEN <<>>
    ELSE <<Best(Group(list, Head(keys)))>> \o BestOfEach(list, Tail(keys))

\* lines 321-342, where no KeyError is raised
deduplicate_results(list) == BestOfEach(list, GroupKeys(list, {}))

----------------------------------------------------------------------------
(* Ordering and grouped rendering: create_output_docx, print_summary *)

\* location_order, lines 351-362: a label's rank is its position minus one
location_order ==
    << Chars("United States"), Chars("Russia"), Chars("Europe"),
       Chars("Middle East"), Chars("Southeast Asia"), Chars("Japan"),
       Chars("Korea"), Chars("China"), Chars("Others"), Chars("Tech") >>

\* location_display_order, line 414
location_display_order ==
    << Chars("United States"), Chars("Russia"), Chars("Europe"),
       Chars("Middle East"), Chars("Southeast Asia"), Chars("Japan"),
       Chars("Korea"), Chars("China"), Chars("Others"), Chars("Tech News") >>

\* the rank get_sort_key gives technology news, line 367
TechRank == 9

\* the rank get_sort_key gives a label location_order lacks, line 371
DefaultRank == 8

\* analysis.get("is_tech_news", False)
IsTech(analysis) ==
    IF "is_tech_news" \in DOMAIN analysis THEN analysis.is_tech_news ELSE FALSE

\* analysis.get("main_location", "Others")
MainLocation(analysis) ==
    IF "main_location" \in DOMAIN analysis THEN analysis.main_location
    ELSE Chars("Others")

\* location_order.get(location, 8)
LocationRank(location) ==
    LET hit == { k \in 1..Len(location_order) : location_order[k] = location }
    IN  IF hit = {} THEN DefaultRank ELSE SetMin(hit) - 1

\* lines 364-372
get_sort_key(result) ==
    IF IsTech(result.analysis) THEN <<TechRank, result.article_index>>
    ELSE <<LocationRank(Normalized(MainLocation(result.analysis))),
           result.article_index>>

\* lines 375-377, for one record
Renormalized(result) ==
    [ result EXCEPT !.analysis = NormalizeMainLocation(@) ]

\* lines 375-377
RECURSIVE RenormalizedAll(_)
RenormalizedAll(list) ==
    IF list = <<>> THEN <<>>
    ELSE <<Renormalized(Head(list))>> \o RenormalizedAll(Tail(list))

RECURSIVE SortKeys(_)
SortKeys(list) ==
    IF list = <<>> THEN <<>>
    ELSE <<get_sort_key(Head(list))>> \o SortKeys(Tail(list))

\* the list as handed over
sorted_selected_Unsorted(list) == list

\* line 380
sorted_selected(list) == StableSort(list, SortKeys(list))

\* the bucket by main_location alone
display_location_ByRegion(result) == MainLocation(result.analysis)

\* line 410
display_location(result) ==
    IF IsTech(result.analysis) THEN Chars("Tech News")
    ELSE MainLocation(result.analysis)

\* lines 423-438: what one article adds to the document.  article_index is
\* not printed; it names the record the entry was rendered from.
ArticleEntry(location, res) ==
    [ kind |-> "article",
      location |-> location,
      article_index |-> res.article_index,
      title |-> res.article_info.title,
      metadata |-> res.article_info.metadata,
      paragraphs |-> SelectSeq(res.article_info.content_paragraphs,
                               LAMBDA p : p # <<>>) ]

\* line 419
LocationHeading(location) == [ kind |-> "location", location |-> location ]

\* lines 416-438: the headings and articles of the display locations from
\* position k on; sorted is sorted_selected
RECURSIVE EmitGroups(_, _)
EmitGroups(sorted, k) ==
    IF k > Len(location_display_order) THEN <<>>
    ELSE LET location == location_display_order[k]
             group == SelectSeq(sorted, LAMBDA res : display_location(res) = location)
         IN  (IF group = <<>> THEN <<>>
              ELSE <<LocationHeading(location)>>
                   \o [g \in 1..Len(group) |-> ArticleEntry(location, group[g])])
             \o EmitGroups(sorted, k + 1)

\* lines 375-438: the grouped part of the output document for a list of
\* representatives
grouped_output(selected_results) ==
    EmitGroups(sorted_selected(RenormalizedAll(selected_results)), 1)

\* whether line 392 raises KeyError: a record without is_hard_news
RenderRaises(all_results) ==
    \E k \in 1..Len(all_results) : "is_hard_news" \notin DOMAIN all_results[k].analysis

\* whether lines 471 raises KeyError for one selected record
SummaryKeyError(result) ==
    \/ "is_tech_news" \notin DOMAIN result.analysis
    \/ (~ result.analysis.is_tech_news /\ "main_location" \notin DOMAIN result.analysis)

----------------------------------------------------------------------------
(* The oracle: what one call can do *)

FullScores ==
    [ who_score |-> 4, what_score |-> 4, when_score |-> 4,
      where_score |-> 4, why_score |-> 4, how_score |-> 4 ]

\* a payload with every field of the schema of lines 173-191
Judgment(topic_key, overall_score, is_hard_news, main_location, is_tech_news) ==
    [ is_hard_news |-> is_hard_news,
      overall_score |-> overall_score,
      analysis |-> FullScores,
      missing_elements |-> <<>>,
      recommendation |-> "ok",
      first_three_paragraphs_analysis |-> "ok",
      topic_summary |-> "summary",
      main_location |-> main_location,
      is_tech_news |-> is_tech_news,
      topic_key |-> topic_key ]

\* a payload that lacks some fields
Without(payload, fields) == [ f \in DOMAIN payload \ fields |-> payload[f] ]

OsakaFire18 == Judgment("osaka_fire", 18, FALSE, <<"U+6771", "U+4EAC">>, FALSE)
OsakaFire25 == Judgment("osaka_fire", 25, TRUE, Chars("Osaka"), FALSE)
ChipExportTech == Judgment("chip_export", 25, TRUE, Chars("China"), TRUE)
MarsLanding == Judgment("mars_landing", 20, TRUE, Chars("Mars"), FALSE)
TokyoSummit == Judgment("tokyo_summit", 20, TRUE, Chars("Tokyo"), FALSE)

Raises(detail) == [ kind |-> "raise", detail |-> detail ]
Returns(text) == [ kind |-> "text", text |-> text ]

\* the call raises
TransportFailures == { Raises("Connection error.") }

\* the call returns text in which no payload can be decoded
UndecodableResponses ==
    { Returns(<<Prose>>),
      Returns(<<LBrace, Prose, RBrace>>) }

\* the call returns text holding one payload with every field of the schema
ValidResponses ==
    { Returns(<<Prose, LBrace, Members(OsakaFire18), RBrace, Prose>>),
      Returns(<<LBrace, Members(OsakaFire25), RBrace>>),
      Returns(<<LBrace, Members(ChipExportTech), RBrace>>),
      Returns(<<LBrace, Members(MarsLanding), RBrace>>) }

\* the call returns text holding one payload that lacks fields of the schema
PartialResponses ==
    { Returns(<<LBrace, Members(Without(TokyoSummit, {"topic_key"})), RBrace>>),
      Returns(<<LBrace, Members(Without(TokyoSummit, {"overall_score"})), RBrace>>),
      Returns(<<LBrace, Members(Without(TokyoSummit, {"is_hard_news"})), RBrace>>),
      Returns(<<LBrace, Members(Without(TokyoSummit, {"is_tech_news", "main_location"})),
                RBrace>>) }

OracleOutcomes ==
    TransportFailures \cup UndecodableResponses \cup ValidResponses \cup PartialResponses

----------------------------------------------------------------------------
(* process_document *)

\* article["content"][:200]
PreviewLen == 200

\* line 293
content_preview(content) ==
    IF Len(content) > PreviewLen THEN Prefix(content, PreviewLen) \o Chars("...")
    ELSE content

\* lines 287-300; the timestamp, which no later step reads, is left out
ResultRecord(article, analysis, index) ==
    [ article_info |->
          [ title |-> article.title,
            metadata |-> article.metadata,
            section |-> article.section,
            content_length |-> Len(article.content),
            content_preview |-> content_preview(article.content),
            content_paragraphs |-> article.content_paragraphs,
            full_content |-> article.content ],
      analysis |-> analysis,
      article_index |-> index ]

\* a loop that calls the oracle again, at once, when the call raised
Classify_WithRetry ==
    /\ pc = "classify"
    /\ raised = "none"
    /\ Len(results) < Len(articles)
    /\ \E outcome \in OracleOutcomes :
          LET index == Len(results) + 1
              article == articles[index]
          IN  /\ oracle_log' = Append(oracle_log,
                     [ request |-> Request(article), outcome |-> outcome ])
              /\ IF outcome.kind = "raise" /\ Len(oracle_log) < 2 * Len(articles)
                 THEN UNCHANGED <<results, pc>>
                 ELSE /\ results' = Append(results,
                            ResultRecord(article,
                                analyze_article_with_kimi(article, outcome), index))
                      /\ pc' = "sleep"
    /\ UNCHANGED <<elsewhere, spans, paragraphs, i, current_article, articles, artifact, selected,
                   document, raised>>

\* lines 282-301: the oracle is called for the next article and its record
\* is appended
Classify ==
    /\ pc = "classify"
    /\ raised = "none"
    /\ Len(results) < Len(articles)
    /\ \E outcome \in OracleOutcomes :
          LET index == Len(results) + 1
              article == articles[index]
          IN  /\ results' = Append(results,
                     ResultRecord(article, analyze_article_with_kimi(article, outcome), index))
              /\ oracle_log' = Append(oracle_log,
                     [ request |-> Request(article), outcome |-> outcome ])
    /\ pc' = "sleep"
    /\ UNCHANGED <<elsewhere, spans, paragraphs, i, current_article, articles, artifact, selected,
                   document, raised>>

\* line 303: time.sleep(self.rate_limit_delay)
Pause ==
    /\ pc = "sleep"
    /\ raised = "none"
    /\ pc' = "classify"
    /\ UNCHANGED <<elsewhere, spans, paragraphs, i, current_article, articles, results, oracle_log,
                   artifact, selected, document, raised>>

\* a run that goes on to deduplication without writing the artifact
Save_Skipped ==
    /\ pc = "classify"
    /\ raised = "none"
    /\ Len(results) = Len(articles)
    /\ pc' = "dedup"
    /\ UNCHANGED <<elsewhere, spans, paragraphs, i, current_article, articles, results, oracle_log,
                   artifact, selected, document, raised>>

\* line 306 and save_results, lines 443-449
Save ==
    /\ pc = "classify"
    /\ raised = "none"
    /\ Len(results) = Len(articles)
    /\ artifact' = Append(artifact, results)
    /\ pc' = "dedup"
    /\ UNCHANGED <<elsewhere, spans, paragraphs, i, current_article, articles, results, oracle_log,
                   selected, document, raised>>

\* line 309
Dedup ==
    /\ pc = "dedup"
    /\ raised = "none"
    /\ IF DedupRaises(results)
       THEN /\ raised' = "KeyError"
            /\ UNCHANGED <<selected, pc>>
       ELSE /\ selected' = deduplicate_results(results)
            /\ pc' = "render"
            /\ UNCHANGED raised
    /\ UNCHANGED <<elsewhere, spans, paragraphs, i, current_article, articles, results, oracle_log,
                   artifact, document>>

\* the article_index values of a list of records
Indices(list) == { list[k].article_index : k \in 1..Len(list) }

\* lines 375-377 change the selected dicts in place, and these are the dicts
\* the list of all results holds
RECURSIVE RenormalizedIn(_, _)
RenormalizedIn(all_results, selected_results) ==
    IF all_results = <<>> THEN <<>>
    ELSE <<IF Head(all_results).article_index \in Indices(selected_results)
           THEN Renormalized(Head(all_results))
           ELSE Head(all_results)>>
         \o RenormalizedIn(Tail(all_results), selected_results)

\* line 312: create_output_docx; the document exists once doc.save has run
Render ==
    /\ pc = "render"
    /\ raised = "none"
    /\ selected' = RenormalizedAll(selected)
    /\ results' = RenormalizedIn(results, selected)
    /\ IF RenderRaises(results)
       THEN /\ raised' = "KeyError"
            /\ UNCHANGED <<document, pc>>
       ELSE /\ document' = grouped_output(selected)
            /\ pc' = "summary"
            /\ UNCHANGED raised
    /\ UNCHANGED <<elsewhere, spans, paragraphs, i, current_article, articles, oracle_log, artifact>>

\* line 315: print_summary, lines 451-473
Summary ==
    /\ pc = "summary"
    /\ raised = "none"
    /\ IF Len(results) = 0
       THEN raised' = "ZeroDivisionError" /\ UNCHANGED pc
       ELSE IF \E k \in 1..Len(selected) : SummaryKeyError(selected[k])
       THEN raised' = "KeyError" /\ UNCHANGED pc
       ELSE pc' = "done" /\ UNCHANGED raised
    /\ UNCHANGED <<elsewhere, spans, paragraphs, i, current_article, articles, results, oracle_log,
                   artifact, selected, document>>

Init ==
    /\ paragraphs \in SeqsUpTo(BlockTexts, MaxBlocks)
    /\ i = 0
    /\ current_article = None
    /\ articles = <<>>
    /\ pc = "scan"
    /\ results = <<>>
    /\ oracle_log = <<>>
    /\ artifact = <<>>
    /\ selected = <<>>
    /\ document = None
    /\ raised = "none"
    /\ spans = <<>>
    /\ location_in = <<>>
    /\ location_out = <<>>
    /\ session_state = None

Next ==
    \/ ScanMetadata
    \/ ScanSkip
    \/ ContentAppend
    \/ ContentStop
    \/ ScanFlush
    \/ Classify
    \/ Pause
    \/ Save
    \/ Dedup
    \/ Render
    \/ Summary

Spec == Init /\ [][Next]_vars

----------------------------------------------------------------------------
(* Direct calls of normalize_location: the adapter's call on the oracle's  *)
(* main_location, then the call create_output_docx repeats on the result   *)

\* Longest location string built from LocationAlphabet.
MaxLocationLen == 2

\* characters that occur in the aliases, in both cases
LocationAlphabet == { "U", "k", "a", "s", "U+56FD" }

RECURSIVE Aliases(_)
Aliases(map) ==
    IF map = <<>> THEN {} ELSE { Head(map)[1] } \cup Aliases(Tail(map))

\* The strings normalize_location is called with: every alias, every label
\* of the display order, those in lower case, an unmapped place, the empty
\* string and the short strings over LocationAlphabet.
LocationInputs ==
    LET named == Aliases(location_map)
                    \cup { location_display_order[k] : k \in 1..Len(location_display_order) }
                    \cup { Chars("Mars"), Chars("South Korea summit") }
    IN  named \cup { Lower(x) : x \in named }
              \cup SeqsUpTo(LocationAlphabet, MaxLocationLen)

\* process_document is not running
PipelineIdle ==
    /\ paragraphs = <<>>
    /\ i = 0
    /\ current_article = None
    /\ articles = <<>>
    /\ results = <<>>
    /\ oracle_log = <<>>
    /\ artifact = <<>>
    /\ selected = <<>>
    /\ document = None
    /\ raised = "none"
    /\ spans = <<>>

pipeline_data == <<paragraphs, i, current_article, articles, results, oracle_log,
                   artifact, selected, document, raised, spans>>

\* line 224: analysis['main_location'] = self.normalize_location(...)
NormalizeCall ==
    /\ pc = "normalize"
    /\ location_out = <<>>
    /\ location_out' = <<normalize_location(location_in)>>
    /\ UNCHANGED <<pipeline_data, pc, location_in, session_state>>

\* lines 375-377: create_output_docx normalizes the stored main_location again
Renormalize ==
    /\ pc = "normalize"
    /\ Len(location_out) = 1
    /\ location_out' = Append(location_out, normalize_location(location_out[1]))
    /\ UNCHANGED <<pipeline_data, pc, location_in, session_state>>

LocationInit ==
    /\ PipelineIdle
    /\ pc = "normalize"
    /\ location_in \in LocationInputs
    /\ location_out = <<>>
    /\ session_state = None

LocationNext == NormalizeCall \/ Renormalize

LocationSpec == LocationInit /\ [][LocationNext]_vars

----------------------------------------------------------------------------
(* extract_articles_from_docx on its own, on longer documents *)

\* Longest input document of the scan on its own, in text blocks.
MaxScanBlocks == 6

ScanInit ==
    /\ paragraphs \in SeqsUpTo(BlockTexts, MaxScanBlocks)
    /\ i = 0
    /\ current_article = None
    /\ articles = <<>>
    /\ pc = "scan"
    /\ results = <<>>
    /\ oracle_log = <<>>
    /\ artifact = <<>>
    /\ selected = <<>>
    /\ document = None
    /\ raised = "none"
    /\ spans = <<>>
    /\ location_in = <<>>
    /\ location_out = <<>>
    /\ session_state = None

ScanNext ==
    \/ ScanMetadata
    \/ ScanSkip
    \/ ContentAppend
    \/ ContentStop
    \/ ScanFlush

ScanSpec == ScanInit /\ [][ScanNext]_vars

\* the loops of lines 40-67 and the flush of lines 69-72 run to their end:
\* nothing but the scan itself decides whether it takes its next step
FairScanSpec == ScanSpec /\ WF_vars(ScanNext)

----------------------------------------------------------------------------
(* article_manager.py: the session state and the handlers of the page *)

\* Most drag-and-drop reorderings in one session.
MaxDrags == 2

LOCATION_ORDER ==
    << "United States", "Russia", "Europe", "Middle East", "Southeast Asia",
       "Japan", "Korea", "China", "Others", "Tech News" >>

Sections == { LOCATION_ORDER[k] : k \in 1..Len(LOCATION_ORDER) }

\* lines 19-104: the articles of the session, by id, in the order of the dict
InitialArticles ==
    [ section \in { "United States", "China", "Tech News", "Europe",
                    "Middle East", "Southeast Asia", "Others" } |->
        CASE section = "United States" -> << "us_1", "us_2" >>
          [] section = "China" -> << "cn_1", "cn_2" >>
          [] section = "Tech News" -> << "tech_1", "tech_2" >>
          [] section = "Europe" -> << "eu_1" >>
          [] section = "Middle East" -> << "me_1" >>
          [] section = "Southeast Asia" -> << "sea_1" >>
          [] section = "Others" -> << "other_1" >> ]

\* article['title'] of every article
ArticleTitle ==
    [ id \in { "us_1", "us_2", "cn_1", "cn_2", "tech_1", "tech_2", "eu_1",
               "me_1", "sea_1", "other_1" } |->
        CASE id = "us_1" -> "Biden Administration Announces New Infrastructure Plan"
          [] id = "us_2" -> "Federal Reserve Signals Potential Rate Cut"
          [] id = "cn_1" -> "China's Economy Shows Signs of Recovery"
          [] id = "cn_2" -> "Beijing Launches New Belt and Road Initiative Projects"
          [] id = "tech_1" -> "OpenAI Announces GPT-5 Development Milestone"
          [] id = "tech_2" -> "Apple Unveils Revolutionary AR Glasses"
          [] id = "eu_1" -> "EU Parliament Passes Landmark AI Regulation"
          [] id = "me_1" -> "UAE Announces Major Renewable Energy Investment"
          [] id = "sea_1" -> "ASEAN Summit Focuses on Economic Cooperation"
          [] id = "other_1" -> "Global Climate Summit Reaches Historic Agreement" ]

ShortTitleLen == 50

\* line 166
short_title(title) ==
    IF Len(title) > ShortTitleLen THEN SubSeq(title, 1, ShortTitleLen) \o "..." ELSE title

\* st.session_state.articles.get(section, [])
SectionArticles(section) ==
    IF section \in DOMAIN session_state.articles
    THEN session_state.articles[section]
    ELSE <<>>

\* the ids of the articles in the session
SessionIds ==
    UNION { { SectionArticles(s)[k] : k \in 1..Len(SectionArticles(s)) } : s \in Sections }

\* lines 130-135; the titles of the session's articles are all different
get_article_by_title(title) ==
    CHOOSE id \in SessionIds : ArticleTitle[id] = title

RECURSIVE Titles(_)
\* line 287: the titles of a section's articles
Titles(ids) ==
    IF ids = <<>> THEN <<>> ELSE <<ArticleTitle[Head(ids)]>> \o Titles(Tail(ids))

RECURSIVE ArticlesOf(_)
\* lines 301-304: the articles of a container's titles
ArticlesOf(titles) ==
    IF titles = <<>> THEN <<>>
    ELSE <<get_article_by_title(Head(titles))>> \o ArticlesOf(Tail(titles))

\* lines 285-288
current_items == [ section \in Sections |-> Titles(SectionArticles(section)) ]

RemoveAt(list, k) == SubSeq(list, 1, k - 1) \o SubSeq(list, k + 1, Len(list))

InsertAt(list, k, x) == SubSeq(list, 1, k - 1) \o <<x>> \o SubSeq(list, k, Len(list))

\* what sort_items returns after the item at place k of one container was
\* dropped at place at of a container
Dropped(from, k, to, at) ==
    LET title == current_items[from][k]
        removed == [ current_items EXCEPT ![from] = RemoveAt(@, k) ]
    IN  [ removed EXCEPT ![to] = InsertAt(@, at, title) ]

\* the articles and containers that are dragged and dropped
DragSources == { "United States", "China" }
DropTargets == { "United States", "China", "Russia" }

\* the articles picked in the selector
ReadChoices == { "us_1", "eu_1" }

NoArticle == "None"

\* lines 146-153
Reset ==
    /\ pc = "page"
    /\ session_state' =
          [ session_state EXCEPT !.reading_mode = FALSE,
                                 !.selected_article = NoArticle,
                                 !.dropdown_selection = "" ]
    /\ UNCHANGED <<pipeline_data, pc, location_in, location_out>>

\* lines 155-158
ToggleStats ==
    /\ pc = "page"
    /\ session_state' = [ session_state EXCEPT !.show_stats = ~ @ ]
    /\ UNCHANGED <<pipeline_data, pc, location_in, location_out>>

\* lines 183-201: an article is picked in the selector
SelectArticle ==
    /\ pc = "page"
    /\ \E id \in ReadChoices \cap SessionIds :
          LET selected_title == short_title(ArticleTitle[id])
          IN  /\ selected_title # session_state.dropdown_selection
              /\ session_state' =
                    [ session_state EXCEPT !.dropdown_selection = selected_title,
                                           !.selected_article = id,
                                           !.reading_mode = TRUE ]
    /\ UNCHANGED <<pipeline_data, pc, location_in, location_out>>

\* line 244
Reading ==
    /\ session_state.reading_mode
    /\ session_state.selected_article # NoArticle

\* lines 250-254 and 273-277
CloseReading ==
    /\ pc = "page"
    /\ Reading
    /\ session_state.selected_article \in SessionIds
    /\ session_state' =
          [ session_state EXCEPT !.reading_mode = FALSE,
                                 !.selected_article = NoArticle,
                                 !.dropdown_selection = "" ]
    /\ UNCHANGED <<pipeline_data, pc, location_in, location_out>>

\* lines 279-310: an article was dragged to another place
DragAndDrop ==
    /\ pc = "page"
    /\ ~ Reading
    /\ session_state.sort_version < MaxDrags
    /\ \E from \in DragSources, to \in DropTargets :
          \E k \in 1..Len(current_items[from]) :
             \E at \in 1..(Len(current_items[to]) + (IF from = to THEN 0 ELSE 1)) :
                LET sorted_items == Dropped(from, k, to, at)
                IN  /\ sorted_items # current_items
                    /\ session_state' =
                          [ session_state EXCEPT
                              !.articles = [ section \in Sections |->
                                               ArticlesOf(sorted_items[section]) ],
                              !.sort_version = @ + 1 ]
    /\ UNCHANGED <<pipeline_data, pc, location_in, location_out>>

\* lines 17-120
PageInit ==
    /\ PipelineIdle
    /\ pc = "page"
    /\ location_in = <<>>
    /\ location_out = <<>>
    /\ session_state =
          [ articles |-> InitialArticles,
            selected_article |-> NoArticle,
            reading_mode |-> FALSE,
            show_stats |-> FALSE,
            dropdown_selection |-> "",
            sort_version |-> 0 ]

PageNext ==
    \/ Reset
    \/ ToggleStats
    \/ SelectArticle
    \/ CloseReading
    \/ DragAndDrop

PageSpec == PageInit /\ [][PageNext]_vars

----------------------------------------------------------------------------
(* Vocabulary of the properties *)

\* extract_articles_from_docx has returned
Segmented == pc \notin {"scan", "content"}

\* the classification loop has ended
Classified == pc \in {"dedup", "render", "summary", "done"}

\* deduplicate_results has returned
DedupReturned == pc \in {"render", "summary", "done"}

\* create_output_docx has saved the document
Rendered == document # None

MetadataPositions ==
    { k \in 1..Len(paragraphs) : is_new_metadata_format(paragraphs[k]) }

\* the fields of the schema of lines 173-191
SchemaFields ==
    { "is_hard_news", "overall_score", "analysis", "missing_elements",
      "recommendation", "first_three_paragraphs_analysis", "topic_summary",
      "main_location", "is_tech_news", "topic_key" }

\* the oracle returned text from which no payload can be decoded
NoPayloadDecodable(outcome) ==
    /\ outcome.kind = "text"
    /\ \/ json_match(outcome.text) = None
       \/ ~ json_decodes(json_match(outcome.text))

\* the oracle returned text holding a payload with every field of the schema
ValidPayload(outcome) ==
    /\ outcome.kind = "text"
    /\ json_match(outcome.text) # None
    /\ json_decodes(json_match(outcome.text))
    /\ DOMAIN json_loads(json_match(outcome.text)) = SchemaFields

\* the oracle call failed: it raised, or no payload can be decoded
OracleFailed(outcome) == outcome.kind = "raise" \/ NoPayloadDecodable(outcome)

\* every call so far had one of the three outcomes: a valid payload, no
\* decodable payload, a raised error
AllOutcomesExpected ==
    \A k \in 1..Len(oracle_log) :
        OracleFailed(oracle_log[k].outcome) \/ ValidPayload(oracle_log[k].outcome)

Sentinels == {"unknown", "error"}

\* a classification without topic_key or with a failure sentinel
FailedClassification(analysis) ==
    \/ "topic_key" \notin DOMAIN analysis
    \/ analysis.topic_key \in Sentinels

Range(list) == { list[k] : k \in 1..Len(list) }

RECURSIVE PermutedFrom(_, _, _)
PermutedFrom(list, p, k) ==
    IF k > Len(list) THEN <<>>
    ELSE <<list[p[k]]>> \o PermutedFrom(list, p, k + 1)

\* the orders in which a list can be handed over
Reorderings(list) ==
    { PermutedFrom(list, p, 1) : p \in Permutations(1..Len(list)) }

\* the positions of the document that render an article
ArticlePositions ==
    { p \in 1..Len(document) : document[p].kind = "article" }

\* the rank of a bucket in the display order
DisplayRank(location) ==
    SetMin({ k \in 1..Len(location_display_order) : location_display_order[k] = location })

\* the selected record an article entry was rendered from
SelectedOf(index) ==
    selected[CHOOSE s \in 1..Len(selected) : selected[s].article_index = index]

----------------------------------------------------------------------------
(* Properties *)

\* C1: segmentation never drops a metadata-bearing block: every block the
\* detector accepts is the metadata of an emitted article, and there are as
\* many articles as such blocks.
C1_NoMetadataBlockDropped ==
    Segmented =>
        /\ Len(articles) = Cardinality(MetadataPositions)
        /\ \A k \in MetadataPositions :
              \E a \in 1..Len(articles) : articles[a].metadata = paragraphs[k]

\* C2: every record whose classification has no topic_key or carries a
\* failure sentinel is alone in its group and is its own representative.
C2_FailedArticlesNeverMerge ==
    DedupReturned =>
        \A k \in 1..Len(results) :
            FailedClassification(results[k].analysis) =>
                /\ results[k].article_index \in Indices(selected)
                /\ \A j \in 1..Len(results) :
                      GroupKey(results[j]) = GroupKey(results[k]) => j = k

\* C3: the sentinel tells the failure kind: text without a decodable payload
\* gives topic_key "unknown", and "error" is given exactly when the call
\* itself raised.
C3_SentinelByFailureKind ==
    \A k \in 1..Len(results) :
        LET outcome == oracle_log[k].outcome
            analysis == results[k].analysis
        IN  /\ NoPayloadDecodable(outcome) =>
                  ("topic_key" \in DOMAIN analysis /\ analysis.topic_key = "unknown")
            /\ ("topic_key" \in DOMAIN analysis /\ analysis.topic_key = "error")
                  <=> outcome.kind = "raise"

\* C4: a payload that deviates from the schema is replaced by the complete
\* fallback, so every Classification of a record has every schema field.
C4_EveryClassificationComplete ==
    \A k \in 1..Len(results) : SchemaFields \subseteq DOMAIN results[k].analysis

\* C5: while every oracle outcome is a valid payload, an undecodable response
\* or a raised error, no step up to and including create_output_docx raises:
\* the articles are classified one by one in their order, each call's
\* outcome becomes one record, the artifact is written once all are
\* classified, and deduplication and rendering follow.
C5_RunNeverAborts ==
    /\ AllOutcomesExpected => (raised = "none" \/ pc = "summary")
    /\ \A k \in 1..Len(results) :
          /\ results[k].article_index = k
          /\ oracle_log[k].request = Request(articles[k])
    /\ Classified => Len(results) = Len(articles) /\ Len(artifact) = 1
    /\ pc \in {"summary", "done"} => Rendered

\* a run with a raised error, an undecodable response and a valid payload
\* that has reached the end
C5_Witness ==
    /\ pc = "done"
    /\ Len(results) = 3
    /\ AllOutcomesExpected
    /\ \E k \in 1..3 : oracle_log[k].outcome.kind = "raise"
    /\ \E k \in 1..3 : NoPayloadDecodable(oracle_log[k].outcome)
    /\ \E k \in 1..3 : ValidPayload(oracle_log[k].outcome)

\* C6: a failed oracle call yields the complete zero Classification, and
\* the results hold one record per article, numbered 1..n in order.
C6_FallbackComplete ==
    /\ Len(oracle_log) = Len(results)
    /\ Len(results) <= Len(articles)
    /\ Classified => Len(results) = Len(articles)
    /\ \A k \in 1..Len(results) :
          LET analysis == results[k].analysis
          IN  /\ results[k].article_index = k
              /\ results[k].article_info.metadata = articles[k].metadata
              /\ results[k].article_info.title = articles[k].title
              /\ OracleFailed(oracle_log[k].outcome) =>
                    /\ SchemaFields \subseteq DOMAIN analysis
                    /\ analysis.overall_score = 0
                    /\ analysis.is_hard_news = FALSE
                    /\ analysis.analysis = ZeroScores
                    /\ analysis.missing_elements = <<"all">>
                    /\ analysis.main_location = Chars("Others")
                    /\ analysis.is_tech_news = FALSE
                    /\ analysis.topic_key \in Sentinels

\* both kinds of failure among the records of a classified document
C6_Witness ==
    /\ Classified
    /\ Len(results) = 3
    /\ \E k \in 1..3 : oracle_log[k].outcome.kind = "raise"
    /\ \E k \in 1..3 : NoPayloadDecodable(oracle_log[k].outcome)
    /\ \E k \in 1..3 : ~ OracleFailed(oracle_log[k].outcome)

\* C7: every representative is rendered exactly once, and a representative
\* that is not technology news and whose location is none of the region
\* labels is rendered in the Others bucket.
C7_EveryRepresentativeEmittedOnce ==
    Rendered =>
        \A s \in 1..Len(selected) :
            /\ Cardinality({ p \in ArticlePositions :
                    document[p].article_index = selected[s].article_index }) = 1
            /\ ( /\ ~ IsTech(selected[s].analysis)
                  /\ MainLocation(selected[s].analysis) \notin Range(location_display_order) )
                => \E p \in ArticlePositions :
                      /\ document[p].article_index = selected[s].article_index
                      /\ document[p].location = Chars("Others")

\* C8: for every topic_key of the input there is exactly one representative,
\* it is the record of that key with the highest overall_score, the earliest
\* among equals, and every order of the input gives the same representatives.
C8_BestOfEachTopic ==
    pc = "render" =>
        /\ \A k \in 1..Len(results) :
              "topic_key" \in DOMAIN results[k].analysis =>
                  \E s \in 1..Len(selected) :
                      /\ "topic_key" \in DOMAIN selected[s].analysis
                      /\ selected[s].analysis.topic_key = results[k].analysis.topic_key
                      /\ selected[s] \in Range(results)
                      /\ \/ selected[s].analysis.overall_score
                                > results[k].analysis.overall_score
                         \/ /\ selected[s].analysis.overall_score
                                  = results[k].analysis.overall_score
                            /\ selected[s].article_index <= results[k].article_index
                      /\ \A t \in 1..Len(selected) :
                            ( /\ "topic_key" \in DOMAIN selected[t].analysis
                              /\ selected[t].analysis.topic_key
                                    = results[k].analysis.topic_key ) => t = s
        /\ \A list \in Reorderings(results) :
              Range(deduplicate_results(list)) = Range(selected)

\* scores 18 and 25 under one key, the better one seen last, beside a tie
C8_Witness ==
    /\ pc = "render"
    /\ Len(results) = 3
    /\ \A k \in 1..3 : "topic_key" \in DOMAIN results[k].analysis
                        /\ results[k].analysis.topic_key = "osaka_fire"
    /\ results[1].analysis.overall_score = 18
    /\ results[2].analysis.overall_score = 25
    /\ results[3].analysis.overall_score = 25
    /\ Indices(selected) = {2}

\* C9: technology news is rendered in the Technology bucket whatever its
\* main_location, never in a region bucket, and after every article of
\* every region bucket.
C9_TechnologyLast ==
    Rendered =>
        /\ \A s \in 1..Len(selected) :
              IsTech(selected[s].analysis) =>
                  /\ \E p \in ArticlePositions :
                        /\ document[p].article_index = selected[s].article_index
                        /\ document[p].location = Chars("Tech News")
                  /\ \A p \in ArticlePositions :
                        document[p].article_index = selected[s].article_index
                            => document[p].location = Chars("Tech News")
        /\ \A p, q \in ArticlePositions :
              ( /\ IsTech(SelectedOf(document[p].article_index).analysis)
                /\ ~ IsTech(SelectedOf(document[q].article_index).analysis) )
              => q < p

\* a technology article located in China, rendered with a region article
C9_Witness ==
    /\ Rendered
    /\ \E p, q \in ArticlePositions :
          /\ IsTech(SelectedOf(document[p].article_index).analysis)
          /\ SelectedOf(document[p].article_index).analysis.main_location = Chars("China")
          /\ document[p].article_index < document[q].article_index
          /\ document[q].location = Chars("Japan")

\* C10: the rendered articles are in the order of (bucket rank,
\* article_index), each bucket under one heading in the display order, and
\* the document is the same for every order of the representatives.
C10_OrderedByBucketThenIndex ==
    /\ Rendered =>
          /\ \A p, q \in ArticlePositions :
                p < q => PairLess(
                    <<DisplayRank(document[p].location), document[p].article_index>>,
                    <<DisplayRank(document[q].location), document[q].article_index>>)
          /\ \A p \in 1..Len(document) :
                document[p].kind = "location" =>
                    /\ p < Len(document)
                    /\ document[p + 1].kind = "article"
                    /\ \A q \in 1..Len(document) :
                          document[q].location = document[p].location => q >= p
    /\ pc = "summary" =>
          \A list \in Reorderings(selected) : grouped_output(list) = document

\* three representatives of two buckets, handed over in another order than
\* they are rendered in
C10_Witness ==
    /\ pc = "summary"
    /\ Cardinality(ArticlePositions) = 3
    /\ Cardinality({ document[p].location : p \in ArticlePositions }) = 2
    /\ \E s, t \in 1..Len(selected) :
          /\ s < t
          /\ \E p, q \in ArticlePositions :
                /\ q < p
                /\ document[p].article_index = selected[s].article_index
                /\ document[q].article_index = selected[t].article_index

\* the articles the scan has opened so far, in order: the emitted ones and
\* the open one while it is not appended yet
Opened ==
    IF Len(spans) > Len(articles) THEN Append(articles, current_article)
    ELSE articles

\* the block positions (0-based) consumed as content by any article
ContentPositions ==
    UNION { Range(spans[k].content_at) : k \in 1..Len(spans) }

TitleA == Chars("A")
TitleB == Chars("B|c")
MetadataLine == Chars("hk 19 a1|x|y")

\* C11: the title of every article is the block just before its metadata
\* line (empty when the metadata line is the first block), and that block is
\* in no article's content; the blocks [A, m1, B, m2] give two articles
\* titled A and B, both without content paragraphs.
C11_TitleIsPrecedingBlock ==
    /\ Len(spans) = Len(Opened)
    /\ \A k \in 1..Len(Opened) :
          LET p == spans[k].metadata_at
          IN  /\ Opened[k].metadata = Block(p)
              /\ Opened[k].title = (IF p >= 1 THEN Block(p - 1) ELSE <<>>)
              /\ p >= 1 => (p - 1) \notin ContentPositions
    /\ (Segmented /\ paragraphs = <<TitleA, MetadataLine, TitleB, MetadataLine>>) =>
          /\ Len(articles) = 2
          /\ articles[1].title = TitleA /\ articles[1].content_paragraphs = <<>>
          /\ articles[2].title = TitleB /\ articles[2].content_paragraphs = <<>>

\* the scan of [A, m1, B, m2] has returned its two articles
C11_Witness ==
    /\ Segmented
    /\ paragraphs = <<TitleA, MetadataLine, TitleB, MetadataLine>>
    /\ Len(articles) = 2
    /\ spans[2].metadata_at = 3

\* the canonical region labels
Regions ==
    { Chars("United States"), Chars("Russia"), Chars("Europe"),
      Chars("Middle East"), Chars("Southeast Asia"), Chars("Japan"),
      Chars("Korea"), Chars("China"), Chars("Others") }

\* C12: normalize_location returns every canonical region label unchanged,
\* and normalizing a result again returns the same result, so the repeated
\* normalization of create_output_docx changes nothing.
C12_NormalizeIdempotent ==
    /\ (location_in \in Regions /\ Len(location_out) >= 1) =>
          location_out[1] = location_in
    /\ (pc = "normalize" /\ Len(location_out) = 2) =>
          location_out[2] = location_out[1]

\* an alias was normalized to a region other than itself and normalized again
C12_Witness ==
    /\ pc = "normalize"
    /\ Len(location_out) = 2
    /\ location_out[1] # location_in
    /\ location_out[1] \in Regions

\* alias k equals the string, case-insensitively
ExactAlias(k, x) == Lower(location_map[k][1]) = Lower(x)

\* alias k contains the string or is contained in it, case-insensitively
SubstringAlias(k, x) ==
    \/ Contains(Lower(x), Lower(location_map[k][1]))
    \/ Contains(Lower(location_map[k][1]), Lower(x))

\* k is the first alias, in table order, that is in the set
FirstIn(k, matching) == k \in matching /\ \A j \in matching : k <= j

\* C15: normalize_location returns the label of the first alias equal to
\* the input ignoring case; without one, the label of the first alias that
\* contains the input or is contained in it; without one, the input itself.
\* An exact match wins over an earlier substring match. The aliases for
\* Tokyo in both scripts give Japan.
C15_TwoPassFirstMatch ==
    (pc = "normalize" /\ Len(location_out) >= 1) =>
        LET x == location_in
            result == location_out[1]
            exact == { k \in 1..Len(location_map) : ExactAlias(k, x) }
            substring == { k \in 1..Len(location_map) : SubstringAlias(k, x) }
        IN  /\ exact # {} =>
                  \E k \in exact : FirstIn(k, exact) /\ result = location_map[k][2]
            /\ (exact = {} /\ substring # {}) =>
                  \E k \in substring :
                      FirstIn(k, substring) /\ result = location_map[k][2]
            /\ (exact = {} /\ substring = {}) => result = x
            /\ x \in { <<"U+6771", "U+4EAC">>, Chars("Tokyo") } => result = Chars("Japan")

\* a string was normalized that equals one alias and is a substring of an
\* earlier one
C15_Witness ==
    /\ pc = "normalize"
    /\ Len(location_out) >= 1
    /\ \E k \in 1..Len(location_map) :
          /\ ExactAlias(k, location_in)
          /\ \E j \in 1..(k - 1) :
                SubstringAlias(j, location_in) /\ ~ ExactAlias(j, location_in)

\* the step sends one request to the oracle
OracleCalled == Len(oracle_log') = Len(oracle_log) + 1

\* C13: the oracle is called once per article, in article order, also after
\* a failed call; a call is made only where the loop is about to classify
\* and is followed by the rate-limit pause, during which no call is made, so
\* two calls are never in flight together.
C13_StrictlySequential ==
    /\ [](/\ Len(oracle_log) = Len(results)
          /\ Len(oracle_log) <= Len(articles)
          /\ \A k \in 1..Len(oracle_log) : oracle_log[k].request = Request(articles[k])
          /\ Classified => Len(oracle_log) = Len(articles))
    /\ [][/\ OracleCalled \/ oracle_log' = oracle_log
          /\ OracleCalled =>
                /\ pc = "classify" /\ pc' = "sleep"
                /\ SubSeq(oracle_log', 1, Len(oracle_log)) = oracle_log
          /\ pc = "sleep" => (oracle_log' = oracle_log /\ pc' = "classify")]_vars

\* the loop has ended after three calls, the second of which raised
C13_Witness ==
    /\ Classified
    /\ Len(oracle_log) = 3
    /\ oracle_log[2].outcome.kind = "raise"
    /\ oracle_log[3].request # oracle_log[2].request

\* deduplication or rendering raised
LaterStageFailed == raised = "KeyError" /\ pc \in {"dedup", "render"}

\* C14: the audit artifact is written once per run, after the last article
\* is classified and before deduplication starts, with one record for every
\* article; so whenever deduplication or rendering fails, the artifact is
\* already there with all records.
C14_ArtifactWrittenOnce ==
    /\ Len(artifact) <= 1
    /\ ~ Classified => artifact = <<>>
    /\ Classified =>
          /\ artifact = <<results>>
          /\ Len(artifact[1]) = Len(articles)
          /\ \A k \in 1..Len(articles) :
                /\ artifact[1][k].article_index = k
                /\ artifact[1][k].article_info.metadata = articles[k].metadata
    /\ (pc = "dedup" /\ raised = "none") => selected = <<>>
    /\ LaterStageFailed => Len(artifact) = 1 /\ Len(artifact[1]) = Len(articles)

\* deduplication has failed on a run of two or more articles, after the
\* artifact was written
C14_Witness ==
    /\ LaterStageFailed
    /\ pc = "dedup"
    /\ Len(articles) >= 2
    /\ artifact = <<results>>

\* the first position (0-based) of a metadata line
FirstMetadataPosition == SetMin({ k - 1 : k \in MetadataPositions })

\* C17: the content paragraphs of every article are the blocks of a
\* contiguous run of positions that starts just after its metadata line, in
\* document order; no position is content of two articles, and no block
\* before the first metadata line is content of any article.
C17_ContentIsContiguousRun ==
    /\ Len(spans) = Len(Opened)
    /\ \A k \in 1..Len(Opened) :
          LET p == spans[k].metadata_at
              at == spans[k].content_at
          IN  /\ Len(Opened[k].content_paragraphs) = Len(at)
              /\ \A c \in 1..Len(at) :
                    /\ at[c] = p + c
                    /\ Opened[k].content_paragraphs[c] = Block(at[c])
    /\ \A k \in 1..Len(spans) : \A j \in 1..Len(spans) :
          k # j => Range(spans[k].content_at) \cap Range(spans[j].content_at) = {}
    /\ \A q \in ContentPositions : q > FirstMetadataPosition

\* a document that starts with a header block was scanned into two
\* articles that both have content
C17_Witness ==
    /\ Segmented
    /\ Len(articles) = 2
    /\ ~ is_new_metadata_format(paragraphs[1])
    /\ articles[1].content_paragraphs # <<>>
    /\ articles[2].content_paragraphs # <<>>
    /\ spans[1].metadata_at >= 1

\* C18: the scan ends on every document: the scan position never goes
\* back, every pass of the outer loop moves it forward by one before
\* anything else (also when the content loop then stops at its lookahead
\* with nothing consumed), and at the end of the input the open article is
\* appended once, so there are as many articles as metadata lines opened.
C18_ScanTerminates ==
    /\ <>Segmented
    /\ [][/\ i' >= i
          /\ (pc = "scan" /\ i < n) => i' = i + 1
          /\ pc = "content" => i' \in {i, i + 1}
          /\ (pc = "scan" /\ i >= n) => Segmented']_vars
    /\ [](/\ i <= n
          /\ Segmented =>
                /\ i = n
                /\ Len(articles) = Len(spans)
                /\ current_article # None =>
                      articles[Len(articles)] = current_article)

\* the scan has ended; the content loop of the first of three articles
\* stopped at its lookahead with nothing consumed
C18_Witness ==
    /\ Segmented
    /\ Len(articles) = 3
    /\ spans[1].content_at = <<>>
    /\ spans[2].metadata_at = spans[1].metadata_at + 2

\* the articles of every section are those of the start, in their order
OriginalOrder(state) ==
    \A section \in Sections :
        (IF section \in DOMAIN state.articles THEN state.articles[section] ELSE <<>>)
          = (IF section \in DOMAIN InitialArticles THEN InitialArticles[section] ELSE <<>>)

\* C16: pressing Reset puts the articles of every section back to their
\* original sections and order, leaves reading mode and clears the selected
\* article.
C16_ResetRestoresOriginalOrder ==
    [][Reset =>
          /\ OriginalOrder(session_state')
          /\ ~ session_state'.reading_mode
          /\ session_state'.selected_article = NoArticle]_vars

====
